---------------------------- MODULE Spec2Model ----------------------------
(***************************************************************************)
(* Chebyshev bases of shenfun (shenfun/chebyshev/bases.py): the planning   *)
(* protocol of the plain basis and of the three Shen bases, and the        *)
(* transforms they bind.                                                   *)
(*                                                                         *)
(* Objects are records.  A buffer is [id, shape, dtype]: two buffers are   *)
(* the same object iff their ids agree.  A bound operation (_func_wrap) is *)
(* [wid, inp, out]; wid = 0 stands for the bare bound method of the class, *)
(* which has no input_array/output_array attribute.                        *)
(***************************************************************************)
EXTENDS Integers, Sequences, FiniteSets, TLC

VARIABLES
    basis,      \* the basis object under test (with its wrapped CT, if any)
    config,     \* the arguments the constructor was called with
    status,     \* outcome of the constructor: "ok" or the exception raised
    nplan,      \* number of plan executions so far (names fresh objects)
    call,       \* the most recent call on the basis and how it ended
    hist,       \* history of the plan calls (most recent arguments etc.)
    mem         \* contents of the buffers U, V, of the caches and of eval

vars == <<basis, config, status, nplan, call, hist, mem>>

(***************************************************************************)
(* Bounds of the model.                                                    *)
(***************************************************************************)
MaxPlans == 2       \* plan executions explored per behaviour

Kinds == {"Basis", "ShenDirichletBasis", "ShenNeumannBasis", "ShenBiharmonicBasis"}

(***************************************************************************)
(* Buffers, provider objects, bound operations.                            *)
(***************************************************************************)
NoBuf == [id |-> 0, shape |-> <<>>, dtype |-> "none"]

NoXfftn == [inp |-> NoBuf, out |-> NoBuf]

\* pyfftw.empty_aligned(shape, dtype): a new array; p names the plan
\* execution that allocates it and slot the array within that execution.
empty_aligned(p, slot, dims, dtype) ==
    [id |-> 4 * p + slot, shape |-> dims, dtype |-> dtype]

\* the unplanned attribute self.forward etc.: the method of the class
BareMethod == [wid |-> 0, inp |-> NoBuf, out |-> NoBuf]

\* _func_wrap(func, xfftn, input_array, output_array)
func_wrap(p, input_array, output_array) ==
    [wid |-> p + 1, inp |-> input_array, out |-> output_array]

\* isinstance(op, _func_wrap)
IsFuncWrap(op) == op.wid # 0

\* _dct_wrap(dct, in_array, out_array): exposes the complex pair
dct_wrap(in_array, out_array) == [inp |-> in_array, out |-> out_array]

(***************************************************************************)
(* Arguments of plan().  shape is an int (the constructors pass N) or a    *)
(* tuple; axis is an int or a 1-tuple.                                     *)
(***************************************************************************)
IntShape(n) == [int |-> TRUE, dims |-> <<n>>]
TupleShape(d) == [int |-> FALSE, dims |-> d]
IntAxis(a) == [tuple |-> FALSE, ax |-> a]
TupleAxis(a) == [tuple |-> TRUE, ax |-> a]

\* "if isinstance(axis, tuple): axis = axis[0]"
NormAxis(axis) == axis.ax

\* "self.forward.input_array.shape == shape": a tuple never equals an int
ShapeEq(bufshape, shape) == (~shape.int) /\ bufshape = shape.dims

\* a no-op test that compares the shape only
AlreadyPlannedIgnoringAxis(b, shape, axis) ==
    IsFuncWrap(b.forward) /\ ShapeEq(b.forward.inp.shape, shape)

\* the no-op test of plan(): "Already planned" for this shape and axis
AlreadyPlanned(b, shape, axis) ==
    IsFuncWrap(b.forward) /\ ShapeEq(b.forward.inp.shape, shape)
        /\ b.axis = NormAxis(axis)

\* "np.dtype(dtype) is np.dtype('float64')"
IsFloat64(dtype) == dtype = "float"

(***************************************************************************)
(* ChebyshevBase.plan, inherited by Basis.  p names this execution.        *)
(***************************************************************************)
ChebyshevBase_plan(b, shape, axis, dtype, p) ==
    IF AlreadyPlanned(b, shape, axis) THEN b
    ELSE
      LET ax == NormAxis(axis)
          Ur == empty_aligned(p, 1, shape.dims, "real")
          Vr == empty_aligned(p, 2, shape.dims, "real")
          \* after update_arrays(U, V) and update_arrays(V, U)
          fwd == [inp |-> Ur, out |-> Vr]
          bck == [inp |-> Vr, out |-> Ur]
          Uc == empty_aligned(p, 3, shape.dims, "complex")
          Vc == empty_aligned(p, 4, shape.dims, "complex")
          U == IF IsFloat64(dtype) THEN Ur ELSE Uc
          V == IF IsFloat64(dtype) THEN Vr ELSE Vc
      IN [b EXCEPT
            !.axis = ax,
            !.xfftn_fwd = IF IsFloat64(dtype) THEN fwd ELSE dct_wrap(Uc, Vc),
            !.xfftn_bck = IF IsFloat64(dtype) THEN bck ELSE dct_wrap(Vc, Uc),
            !.forward = func_wrap(p, U, V),
            !.backward = func_wrap(p, V, U),
            !.scalar_product = func_wrap(p, U, V)]

(***************************************************************************)
(* plan of the three Shen bases: delegate to CT, then re-bind.             *)
(***************************************************************************)
ShenDirichletBasis_plan(s, shape, axis, dtype, p) ==
    IF AlreadyPlanned(s, shape, axis) THEN s
    ELSE
      LET ct == ChebyshevBase_plan(s.CT, shape, axis, dtype, p)
          U == ct.xfftn_fwd.inp
          V == ct.xfftn_fwd.out
      IN [s EXCEPT
            !.CT = ct,
            !.axis = ct.axis,
            !.xfftn_fwd = ct.xfftn_fwd,
            !.xfftn_bck = ct.xfftn_bck,
            !.forward = func_wrap(p, U, V),
            !.backward = func_wrap(p, V, U),
            !.scalar_product = func_wrap(p, U, V)]

\* a plan that takes U and V from the CT before the CT is planned again
ShenNeumannBasis_plan_stale(s, shape, axis, dtype, p) ==
    IF AlreadyPlanned(s, shape, axis) THEN s
    ELSE
      LET ct == ChebyshevBase_plan(s.CT, shape, axis, dtype, p)
          U == s.CT.xfftn_fwd.inp
          V == s.CT.xfftn_fwd.out
      IN [s EXCEPT
            !.CT = ct,
            !.axis = ct.axis,
            !.xfftn_fwd = ct.xfftn_fwd,
            !.xfftn_bck = ct.xfftn_bck,
            !.forward = func_wrap(p, U, V),
            !.backward = func_wrap(p, V, U),
            !.scalar_product = func_wrap(p, U, V)]

ShenNeumannBasis_plan(s, shape, axis, dtype, p) ==
    IF AlreadyPlanned(s, shape, axis) THEN s
    ELSE
      LET ct == ChebyshevBase_plan(s.CT, shape, axis, dtype, p)
          U == ct.xfftn_fwd.inp
          V == ct.xfftn_fwd.out
      IN [s EXCEPT
            !.CT = ct,
            !.axis = ct.axis,
            !.xfftn_fwd = ct.xfftn_fwd,
            !.xfftn_bck = ct.xfftn_bck,
            !.forward = func_wrap(p, U, V),
            !.backward = func_wrap(p, V, U),
            !.scalar_product = func_wrap(p, U, V)]

ShenBiharmonicBasis_plan(s, shape, axis, dtype, p) ==
    IF AlreadyPlanned(s, shape, axis) THEN s
    ELSE
      LET ct == ChebyshevBase_plan(s.CT, shape, axis, dtype, p)
          U == ct.xfftn_fwd.inp
          V == ct.xfftn_fwd.out
      IN [s EXCEPT
            !.CT = ct,
            !.axis = ct.axis,
            !.xfftn_fwd = ct.xfftn_fwd,
            !.xfftn_bck = ct.xfftn_bck,
            !.forward = func_wrap(p, U, V),
            !.backward = func_wrap(p, V, U),
            !.scalar_product = func_wrap(p, U, V)]

\* b.plan(...): dispatch on the class of b
plan(b, shape, axis, dtype, p) ==
    CASE b.kind = "Basis" -> ChebyshevBase_plan(b, shape, axis, dtype, p)
      [] b.kind = "ShenDirichletBasis" -> ShenDirichletBasis_plan(b, shape, axis, dtype, p)
      [] b.kind = "ShenNeumannBasis" -> ShenNeumannBasis_plan(b, shape, axis, dtype, p)
      [] OTHER -> ShenBiharmonicBasis_plan(b, shape, axis, dtype, p)

(***************************************************************************)
(* Constructors.  A constructor yields [status, obj, used]: the exception  *)
(* it raised (or "ok"), the object, and the plan executions it consumed.   *)
(***************************************************************************)
DefaultDomain == <<-1, 1>>

\* fewest modes of each variant (data model: N >= 2 plain, >= 4
\* Dirichlet/Neumann, >= 6 Biharmonic)
MinModes(kind) ==
    CASE kind = "Basis" -> 2
      [] kind = "ShenBiharmonicBasis" -> 6
      [] OTHER -> 4

\* SpectralBase.__init__(N, quad, domain=domain): rejects a configuration
\* with too few modes for the variant or with a malformed domain
SpectralBase_init(kind, N, quad, domain) ==
    IF N < MinModes(kind) \/ domain[1] >= domain[2]
    THEN "ConfigurationError" ELSE "ok"

\* a constructor without the assertion on quad
QuadAcceptedAny(quad) == TRUE

\* "assert quad in ('GC', 'GL')"
QuadAccepted(quad) == quad \in {"GC", "GL"}

\* ChebyshevBase.__init__
ChebyshevBase_init(kind, N, quad, domain) ==
    IF ~QuadAccepted(quad) THEN "AssertionError"
    ELSE SpectralBase_init(kind, N, quad, domain)

\* the attributes of a freshly initialised basis (self.axis = 0, no
\* transforms bound)
NewObject(kind, N, quad, domain) ==
    [kind |-> kind, N |-> N, quad |-> quad, domain |-> domain, axis |-> 0,
     forward |-> BareMethod, backward |-> BareMethod,
     scalar_product |-> BareMethod,
     xfftn_fwd |-> NoXfftn, xfftn_bck |-> NoXfftn,
     CT |-> [kind |-> "none"]]

Failed(st) == [status |-> st, obj |-> [kind |-> "none"], used |-> 0]

\* Basis.__init__(N, quad, plan, domain); p0 is the first free execution
Basis_init(N, quad, doplan, domain, p0) ==
    LET st == ChebyshevBase_init("Basis", N, quad, domain)
        obj == NewObject("Basis", N, quad, domain)
    IN IF st # "ok" THEN Failed(st)
       ELSE IF doplan
            THEN [status |-> "ok",
                  obj |-> ChebyshevBase_plan(obj, IntShape(N), IntAxis(0), "float", p0),
                  used |-> 1]
            ELSE [status |-> "ok", obj |-> obj, used |-> 0]

\* ShenDirichletBasis.__init__: CT = Basis(N, quad, plan=plan)
ShenDirichletBasis_init(N, quad, doplan, domain) ==
    LET st == ChebyshevBase_init("ShenDirichletBasis", N, quad, domain)
        ct == Basis_init(N, quad, doplan, DefaultDomain, 0)
        obj == [NewObject("ShenDirichletBasis", N, quad, domain)
                  EXCEPT !.CT = ct.obj]
    IN IF st # "ok" THEN Failed(st)
       ELSE IF ct.status # "ok" THEN Failed(ct.status)
       ELSE IF doplan
            THEN [status |-> "ok",
                  obj |-> ShenDirichletBasis_plan(obj, IntShape(N), IntAxis(0),
                                                  "float", ct.used),
                  used |-> ct.used + 1]
            ELSE [status |-> "ok", obj |-> obj, used |-> ct.used]

\* ShenNeumannBasis.__init__: CT = Basis(N, quad)
ShenNeumannBasis_init(N, quad, doplan, domain) ==
    LET st == ChebyshevBase_init("ShenNeumannBasis", N, quad, domain)
        ct == Basis_init(N, quad, FALSE, DefaultDomain, 0)
        obj == [NewObject("ShenNeumannBasis", N, quad, domain)
                  EXCEPT !.CT = ct.obj]
    IN IF st # "ok" THEN Failed(st)
       ELSE IF ct.status # "ok" THEN Failed(ct.status)
       ELSE IF doplan
            THEN [status |-> "ok",
                  obj |-> ShenNeumannBasis_plan(obj, IntShape(N), IntAxis(0),
                                                "float", ct.used),
                  used |-> ct.used + 1]
            ELSE [status |-> "ok", obj |-> obj, used |-> ct.used]

\* ShenBiharmonicBasis.__init__(N, quad, plan): no domain argument
ShenBiharmonicBasis_init(N, quad, doplan) ==
    LET st == ChebyshevBase_init("ShenBiharmonicBasis", N, quad, DefaultDomain)
        ct == Basis_init(N, quad, FALSE, DefaultDomain, 0)
        obj == [NewObject("ShenBiharmonicBasis", N, quad, DefaultDomain)
                  EXCEPT !.CT = ct.obj]
    IN IF st # "ok" THEN Failed(st)
       ELSE IF ct.status # "ok" THEN Failed(ct.status)
       ELSE IF doplan
            THEN [status |-> "ok",
                  obj |-> ShenBiharmonicBasis_plan(obj, IntShape(N), IntAxis(0),
                                                   "float", ct.used),
                  used |-> ct.used + 1]
            ELSE [status |-> "ok", obj |-> obj, used |-> ct.used]

Construct(kind, N, quad, doplan, domain) ==
    CASE kind = "Basis" -> Basis_init(N, quad, doplan, domain, 0)
      [] kind = "ShenDirichletBasis" -> ShenDirichletBasis_init(N, quad, doplan, domain)
      [] kind = "ShenNeumannBasis" -> ShenNeumannBasis_init(N, quad, doplan, domain)
      [] OTHER -> ShenBiharmonicBasis_init(N, quad, doplan)

(***************************************************************************)
(* Transform calls, by what they touch and how they end.  An outcome is    *)
(* [result, ran, wrote]: the exception that ended the call (or "ok"),      *)
(* whether a transform was computed, whether a planned buffer was written. *)
(***************************************************************************)
NoInput == [given |-> FALSE, shape |-> <<>>]
Input(shape) == [given |-> TRUE, shape |-> shape]

Done(ran, wrote) == [result |-> "ok", ran |-> ran, wrote |-> wrote]
Raise(e, ran, wrote) == [result |-> e, ran |-> ran, wrote |-> wrote]

\* statement sequencing: the second part runs only if the first returned
Then(r, n) ==
    IF r.result # "ok" THEN r
    ELSE [result |-> n.result, ran |-> r.ran \/ n.ran, wrote |-> r.wrote \/ n.wrote]

\* numpy's rule for "dst[...] = src": src is broadcast to the shape of dst
Broadcastable(src, dst) ==
    \A i \in 1..Len(src) :
        IF i <= Len(dst)
        THEN src[Len(src) - i + 1] \in {1, dst[Len(dst) - i + 1]}
        ELSE src[Len(src) - i + 1] = 1

\* a copy-in that finds a buffer on an unplanned operation too
CopyInUnplanned(op, input) ==
    IF ~input.given THEN Done(FALSE, FALSE)
    ELSE IF IsFuncWrap(op) /\ ~Broadcastable(input.shape, op.inp.shape)
         THEN Raise("ValueError", FALSE, FALSE)
    ELSE Done(FALSE, TRUE)

\* "if input_array is not None: self.<op>.input_array[...] = input_array"
CopyIn(op, input) ==
    IF ~input.given THEN Done(FALSE, FALSE)
    ELSE IF ~IsFuncWrap(op) THEN Raise("AttributeError", FALSE, FALSE)
    ELSE IF ~Broadcastable(input.shape, op.inp.shape)
         THEN Raise("ValueError", FALSE, FALSE)
    ELSE Done(FALSE, TRUE)

\* shape[axis] of a planned buffer (0 if there is none)
AxisLen(shape, axis) == IF axis + 1 \in DOMAIN shape THEN shape[axis + 1] ELSE 0

\* SpectralBase.vandermonde_scalar_product(self.scalar_product.input_array,
\* self.scalar_product.output_array): the slow path
vandermonde_scalar_product(b) ==
    IF ~IsFuncWrap(b.scalar_product) THEN Raise("AttributeError", FALSE, FALSE)
    ELSE Done(TRUE, TRUE)

\* Basis.scalar_product with the asserts of its fast path
Basis_scalar_product(b, input, fast) ==
    Then(CopyIn(b.scalar_product, input),
         IF fast
         THEN IF ~IsFuncWrap(b.scalar_product)
              THEN Raise("AttributeError", FALSE, FALSE)
              ELSE IF b.N # AxisLen(b.scalar_product.inp.shape, b.axis)
              THEN Raise("AssertionError", FALSE, FALSE)
              ELSE IF b.xfftn_fwd.out.id # b.scalar_product.out.id
              THEN Raise("IdentityAssertion", TRUE, TRUE)
              ELSE Done(TRUE, TRUE)
         ELSE vandermonde_scalar_product(b))

\* ShenDirichletBasis.scalar_product
ShenDirichletBasis_scalar_product(s, input, fast) ==
    Then(CopyIn(s.scalar_product, input),
         IF fast THEN Basis_scalar_product(s.CT, NoInput, TRUE)
         ELSE vandermonde_scalar_product(s))

\* ShenNeumannBasis.scalar_product
ShenNeumannBasis_scalar_product(s, input, fast) ==
    Then(CopyIn(s.scalar_product, input),
         Then(IF fast THEN Basis_scalar_product(s.CT, NoInput, TRUE)
              ELSE vandermonde_scalar_product(s),
              IF ~IsFuncWrap(s.scalar_product)
              THEN Raise("AttributeError", FALSE, FALSE)
              ELSE Done(FALSE, TRUE)))

\* ShenBiharmonicBasis.scalar_product
ShenBiharmonicBasis_scalar_product(s, input, fast) ==
    Then(CopyIn(s.scalar_product, input),
         Then(IF fast THEN Basis_scalar_product(s.CT, NoInput, TRUE)
              ELSE vandermonde_scalar_product(s),
              Done(FALSE, TRUE)))

\* self.scalar_product(...)
scalar_product(b, input, fast) ==
    CASE b.kind = "Basis" -> Basis_scalar_product(b, input, fast)
      [] b.kind = "ShenDirichletBasis" -> ShenDirichletBasis_scalar_product(b, input, fast)
      [] b.kind = "ShenNeumannBasis" -> ShenNeumannBasis_scalar_product(b, input, fast)
      [] OTHER -> ShenBiharmonicBasis_scalar_product(b, input, fast)

\* SpectralBase.forward: scalar_product, then apply_inverse_mass
SpectralBase_forward(b, input, fast) ==
    Then(CopyIn(b.forward, input),
         Then(scalar_product(b, NoInput, fast), Done(FALSE, TRUE)))

\* ShenDirichletBasis.forward, with its identity asserts
ShenDirichletBasis_forward(s, input, fast) ==
    Then(CopyIn(s.forward, input),
         Then(ShenDirichletBasis_scalar_product(s, NoInput, fast),
              IF s.scalar_product.out.id # s.forward.out.id
              THEN Raise("IdentityAssertion", FALSE, FALSE)
              ELSE Done(FALSE, TRUE)))

forward(b, input, fast) ==
    IF b.kind = "ShenDirichletBasis" THEN ShenDirichletBasis_forward(b, input, fast)
    ELSE SpectralBase_forward(b, input, fast)

\* Basis.evaluate_expansion_all(self.backward.input_array, ...)
Basis_evaluate_expansion_all(b) ==
    IF b.backward.inp.id # b.xfftn_bck.inp.id
    THEN Raise("IdentityAssertion", TRUE, TRUE)
    ELSE Done(TRUE, TRUE)

\* SpectralBase.vandermonde_evaluate_expansion_all: the slow path
vandermonde_evaluate_expansion_all(b) == Done(TRUE, TRUE)

\* SpectralBase.backward of the plain basis (CT.backward(w_hat) included)
Basis_backward(b, input, fast) ==
    Then(CopyIn(b.backward, input),
         IF ~IsFuncWrap(b.backward) THEN Raise("AttributeError", FALSE, FALSE)
         ELSE IF fast THEN Basis_evaluate_expansion_all(b)
         ELSE vandermonde_evaluate_expansion_all(b))

\* the work array w_hat = work[(input_array, 0)] handed to CT.backward
WorkLike(buf) == Input(buf.shape)

\* ShenDirichletBasis.evaluate_expansion_all
ShenDirichletBasis_evaluate_expansion_all(s) ==
    Then(Basis_backward(s.CT, WorkLike(s.backward.inp), TRUE),
         IF s.backward.inp.id # s.xfftn_bck.inp.id
              \/ s.CT.backward.out.id # s.xfftn_bck.out.id
         THEN Raise("IdentityAssertion", FALSE, FALSE)
         ELSE Done(FALSE, FALSE))

\* ShenNeumannBasis.evaluate_expansion_all
ShenNeumannBasis_evaluate_expansion_all(s) ==
    Basis_backward(s.CT, WorkLike(s.backward.inp), TRUE)

\* ShenBiharmonicBasis.evaluate_expansion_all
ShenBiharmonicBasis_evaluate_expansion_all(s) ==
    Then(Basis_backward(s.CT, WorkLike(s.backward.inp), TRUE),
         IF s.CT.backward.out.id # s.backward.out.id
         THEN Raise("IdentityAssertion", FALSE, FALSE)
         ELSE Done(FALSE, FALSE))

evaluate_expansion_all(b) ==
    CASE b.kind = "Basis" -> Basis_evaluate_expansion_all(b)
      [] b.kind = "ShenDirichletBasis" -> ShenDirichletBasis_evaluate_expansion_all(b)
      [] b.kind = "ShenNeumannBasis" -> ShenNeumannBasis_evaluate_expansion_all(b)
      [] OTHER -> ShenBiharmonicBasis_evaluate_expansion_all(b)

\* SpectralBase.backward
backward(b, input, fast) ==
    Then(CopyIn(b.backward, input),
         IF ~IsFuncWrap(b.backward) THEN Raise("AttributeError", FALSE, FALSE)
         ELSE IF fast THEN evaluate_expansion_all(b)
         ELSE vandermonde_evaluate_expansion_all(b))

(***************************************************************************)
(* Exact arithmetic for the transforms.  The values of a transform of      *)
(* length N are pi^e times numbers of Q(zeta), zeta a primitive M-th root  *)
(* of unity with 2*cos(2*pi*m/M) = zeta^m + zeta^-m.  An array is          *)
(* [v, d, pi]: v[k] is the numerator of slot k-1, a vector of integers     *)
(* indexed by (power of zeta) + 1, d > 0 is the denominator and pi the     *)
(* power e of pi that the slots share.  Arrays are kept in normal form,    *)
(* so two arrays hold the same numbers iff they are equal.                 *)
(***************************************************************************)
VecLen(M) == M

\* the sequence s with its elements computed (a tuple, not a rule)
Strict(s) == s \o <<>>

RECURSIVE Gcd(_, _)
Gcd(a, b) == IF b = 0 THEN a ELSE Gcd(b, a % b)

Abs(a) == IF a < 0 THEN -a ELSE a

Lcm(a, b) == (a * b) \div Gcd(a, b)

\* least common multiple of a set of positive integers
RECURSIVE LcmSet(_)
LcmSet(S) ==
    IF S = {} THEN 1
    ELSE LET x == CHOOSE x \in S : TRUE IN Lcm(x, LcmSet(S \ {x}))

\* the absolute values of the numerators of the array v
Numerators(v) ==
    UNION {{Abs(v[k][i]) : i \in 1..Len(v[k])} : k \in 1..Len(v)}

\* greatest common divisor of g > 0 and the numbers in S
RECURSIVE GcdSet(_, _)
GcdSet(S, g) ==
    IF g = 1 \/ S = {} THEN g
    ELSE LET x == CHOOSE x \in S : TRUE IN GcdSet(S \ {x}, Gcd(x, g))

\* greatest common divisor of d > 0 and the numerators of v
GcdArr(v, d) == GcdSet(Numerators(v), d)

\* largest power of p dividing M
RECURSIVE PowerIn(_, _)
PowerIn(p, M) == IF M % p = 0 THEN p * PowerIn(p, M \div p) ELSE 1

\* one pass of the normal form for the prime p | M: zeta^(M/p) has order p,
\* so the p powers e, e + M/p, ... sum to zero; the member of each such
\* coset whose residue mod p^a lies in the top p^(a-1) residues is
\* eliminated.
Representative(e, p, M, pa, step) ==
    LET t == CHOOSE t \in 0..(p - 1) : ((e + t * step) % pa) >= pa - (pa \div p)
    IN (e + t * step) % M

ReducePrimePower(x, p, M, pa) ==
    Strict([i \in 1..Len(x) |->
        x[i] - x[Representative(i - 1, p, M, pa, M \div p) + 1]])

ReducePrime(x, p, M) == ReducePrimePower(x, p, M, PowerIn(p, M))

PrimeDivisors(M) ==
    {p \in 2..M : M % p = 0 /\ \A q \in 2..(p - 1) : p % q # 0}

\* the passes for the primes in S, one after the other
RECURSIVE ReducePrimes(_, _, _)
ReducePrimes(x, S, M) ==
    IF S = {} THEN x
    ELSE LET p == CHOOSE p \in S : \A q \in S : p <= q
         IN ReducePrimes(ReducePrime(x, p, M), S \ {p}, M)

ReduceOver(v, S, M) == Strict([k \in 1..Len(v) |-> ReducePrimes(v[k], S, M)])

IsZero(x) == \A i \in 1..Len(x) : x[i] = 0

\* the array pi^e * v/d with the common factor g of its numerators and d
\* removed; the zero array is written with e = 0
DivideBy(v, d, g, e) ==
    [v |-> Strict([k \in 1..Len(v) |->
                 Strict([i \in 1..Len(v[k]) |-> v[k][i] \div g])]),
     d |-> d \div g,
     pi |-> IF \A k \in 1..Len(v) : IsZero(v[k]) THEN 0 ELSE e]

LowestTerms(v, d, e) == DivideBy(v, d, GcdArr(v, d), e)

\* normal form of an array over the M-th roots of unity
Canon(a, M) ==
    LowestTerms(ReduceOver(a.v, PrimeDivisors(M), M), a.d, a.pi)

ZeroVec(M) == Strict([i \in 1..VecLen(M) |-> 0])

\* the rational integer c as a vector
IntVec(c, M) == Strict([i \in 1..VecLen(M) |-> IF i = 1 THEN c ELSE 0])

\* np.zeros(n) / U.fill(0)
Zeros(n, M) == [v |-> Strict([k \in 1..n |-> ZeroVec(M)]), d |-> 1, pi |-> 0]

\* an array of integers f[1..n]
FromInts(f, M) ==
    [v |-> Strict([k \in 1..Len(f) |-> IntVec(f[k], M)]), d |-> 1, pi |-> 0]

\* a linear term  (num/den) * c * a[idx],  c = 1 or c = 2*cos(2*pi*m/M)
Term(idx, num, den) == [idx |-> idx, num |-> num, den |-> den, cos |-> FALSE, m |-> 0]
CosTerm(idx, num, den, m) == [idx |-> idx, num |-> num, den |-> den, cos |-> TRUE, m |-> m]

RECURSIVE SumTerms(_, _, _, _, _, _)
SumTerms(v, terms, D, M, i, j) ==
    \* entry i of  sum over terms[j..] of D * (num/den) * c * v[idx];
    \* zeta^(i-1) * (zeta^m + zeta^-m) = zeta^(i-1+m) + zeta^(i-1-m)
    IF j > Len(terms) THEN 0
    ELSE (terms[j].num * (D \div terms[j].den))
             * (IF terms[j].cos
                THEN v[terms[j].idx][((i - 1 + M - (terms[j].m % M)) % M) + 1]
                       + v[terms[j].idx][((i - 1 + terms[j].m) % M) + 1]
                ELSE v[terms[j].idx][i])
         + SumTerms(v, terms, D, M, i, j + 1)

DensOf(rows) ==
    UNION {{rows[k][j].den : j \in 1..Len(rows[k])} : k \in 1..Len(rows)}

LinOver(a, rows, M, D) ==
    [v |-> Strict([k \in 1..Len(rows) |->
              Strict([i \in 1..VecLen(M) |-> SumTerms(a.v, rows[k], D, M, i, 1)])]),
     d |-> a.d * D, pi |-> a.pi]

\* the array whose slot k is the sum of the terms rows[k] over a
Lin(a, rows, M) == LinOver(a, rows, M, LcmSet(DensOf(rows)))

\* a with slot k set to c * pi, for an array a of multiples of pi (or of
\* zeros)
SetPiTimes(a, k, c, M) ==
    [v |-> [a.v EXCEPT ![k] = IntVec(c * a.d, M)], d |-> a.d, pi |-> 1]

\* a * pi and a / pi
MulPi(a, M) == [a EXCEPT !.pi = @ + 1]
DivPi(a, M) == [a EXCEPT !.pi = @ - 1]

\* the rows of the elementwise map  a[k] -> (num/den) * a[k]
ScaleRows(n, num, den) == Strict([k \in 1..n |-> <<Term(k, num, den)>>])

(***************************************************************************)
(* The transforms on values, for a basis planned for shape (N,), axis 0,   *)
(* real element type.  Slot k of the source is index k+1 here.             *)
(***************************************************************************)
\* order of the root of unity that carries cos(k*theta_j) at the
\* quadrature points: theta_j = pi*(2j+1)/(2N) (GC), pi*j/(N-1) (GL)
Order(quad, N) == IF quad = "GC" THEN 4 * N ELSE 2 * (N - 1)

\* T_k(x_j) = cos(2*pi*Angle/Order) at the points of points_and_weights
Angle(quad, j, k) == IF quad = "GC" THEN k * (2 * j + 1) ELSE j * k

Sign(k) == IF k % 2 = 0 THEN 1 ELSE -1

\* pyfftw.builders.dct(type=2):  y_k = 2 sum_n x_n cos(pi k (2n+1) / (2N))
dct2(N) ==
    Strict([k \in 1..N |->
        Strict([n \in 1..N |-> CosTerm(n, 1, 1, (k - 1) * (2 * (n - 1) + 1))])])

\* pyfftw.builders.dct(type=3):  y_k = x_0 + 2 sum_{n>0} x_n cos(pi n (2k+1) / (2N))
dct3(N) ==
    Strict([k \in 1..N |->
        Strict([n \in 1..N |-> IF n = 1 THEN Term(1, 1, 1)
                        ELSE CosTerm(n, 1, 1, (n - 1) * (2 * (k - 1) + 1))])])

\* pyfftw.builders.dct(type=1):
\* y_k = x_0 + (-1)^k x_{N-1} + 2 sum_{0<n<N-1} x_n cos(pi k n / (N-1))
dct1(N) ==
    Strict([k \in 1..N |->
        Strict([n \in 1..N |-> IF n = 1 THEN Term(1, 1, 1)
                        ELSE IF n = N THEN Term(N, Sign(k - 1), 1)
                        ELSE CosTerm(n, 1, 1, (k - 1) * (n - 1))])])

\* Basis.__init__: self._xfftn_fwd / self._xfftn_bck by quadrature
xfftn_fwd(quad, N) == IF quad = "GC" THEN dct2(N) ELSE dct1(N)
xfftn_bck(quad, N) == IF quad = "GC" THEN dct3(N) ELSE dct1(N)

\* two arrays over one denominator: a in slots 1..Len(a.v), b after it
Join(a, b) ==
    [v |-> Strict([k \in 1..(Len(a.v) + Len(b.v)) |->
              IF k <= Len(a.v)
              THEN Strict([i \in 1..Len(a.v[k]) |-> a.v[k][i] * b.d])
              ELSE Strict([i \in 1..Len(b.v[k - Len(a.v)]) |->
                              b.v[k - Len(a.v)][i] * a.d])]),
     d |-> a.d * b.d, pi |-> a.pi]

\* the scaling of the fast scalar product: pi/(2N) (GC), pi/(2(N-1)) (GL)
ScalarProductDen(quad, N) == IF quad = "GC" THEN 2 * N ELSE 2 * (N - 1)

\* fast path of Basis.scalar_product: out = xfftn_fwd(); out *= pi/(2N)
Basis_scalar_product_fast(U, quad, N) ==
    LET M == Order(quad, N)
        out == Lin(U, xfftn_fwd(quad, N), M)
    IN Lin(MulPi(out, M), ScaleRows(N, 1, ScalarProductDen(quad, N)), M)

\* an inverse mass that halves slot 0 only, whatever the quadrature
InverseMassHalvedFirst(quad, N) == {1}

\* Basis.apply_inverse_mass: array *= 2/pi; array[0] /= 2; GL: array[-1] /= 2
InverseMassHalved(quad, N) == IF quad = "GL" THEN {1, N} ELSE {1}

Basis_apply_inverse_mass(array, quad, N) ==
    LET M == Order(quad, N)
        a1 == Lin(DivPi(array, M), ScaleRows(N, 2, 1), M)
    IN Lin(a1, Strict([k \in 1..N |->
                  <<Term(k, 1, IF k \in InverseMassHalved(quad, N) THEN 2 ELSE 1)>>]), M)

\* Basis.evaluate_expansion_all: output = xfftn_bck(); output *= 0.5;
\* output += input[0]/2; GL: output[0::2] += input[-1]/2,
\* output[1::2] -= input[-1]/2
LobattoCorrection(quad, N, j) ==
    IF quad = "GL" THEN <<Term(2 * N, Sign(j - 1), 2)>> ELSE <<>>

Basis_evaluate_expansion_all_values(V, quad, N) ==
    LET M == Order(quad, N)
        out == Lin(Lin(V, xfftn_bck(quad, N), M), ScaleRows(N, 1, 2), M)
    IN Lin(Join(out, V),
           Strict([j \in 1..N |-> <<Term(j, 1, 1), Term(N + 1, 1, 2)>>
                             \o LobattoCorrection(quad, N, j)]), M)

\* SpectralBase.vandermonde_scalar_product on the plain columns:
\* slot k = sum_j U[j] * w_j * T_k(x_j), with the points and weights of
\* ChebyshevBase.points_and_weights (GC: w = pi/N; GL: w = pi/(N-1), halved
\* at both ends) and T_k(x_j) of ChebyshevBase.vandermonde
WeightDen(quad, N, j) ==
    IF quad = "GC" THEN N
    ELSE IF j = 0 \/ j = N - 1 THEN 2 * (N - 1) ELSE N - 1

vandermonde(quad, N) ==
    Strict([k \in 1..N |->
        Strict([j \in 1..N |->
            CosTerm(j, 1, 2 * WeightDen(quad, N, j - 1), Angle(quad, j - 1, k - 1))])])

\* the columns of get_vandermonde_basis as rows of terms over the plain
\* columns: P[:, k] = sum of (num/den) * V[:, idx]
Basis_get_vandermonde_basis(N) == Strict([k \in 1..N |-> <<Term(k, 1, 1)>>])

ShenDirichletBasis_get_vandermonde_basis(N) ==
    Strict([k \in 1..N |->
        IF k <= N - 2 THEN <<Term(k, 1, 1), Term(k + 2, -1, 1)>>
        ELSE IF k = N - 1 THEN <<Term(1, 1, 2), Term(2, 1, 2)>>
        ELSE <<Term(1, 1, 2), Term(2, -1, 2)>>])

ShenNeumannBasis_get_vandermonde_basis(N) ==
    Strict([k \in 1..N |->
        IF k <= N - 2
        THEN <<Term(k, 1, 1), Term(k + 2, -((k - 1) * (k - 1)), (k + 1) * (k + 1))>>
        ELSE <<>>])

ShenBiharmonicBasis_get_vandermonde_basis(N) ==
    Strict([k \in 1..N |->
        IF k <= N - 4
        THEN <<Term(k, 1, 1), Term(k + 2, -2 * (k + 1), k + 2), Term(k + 4, k, k + 2)>>
        ELSE <<>>])

get_vandermonde_basis(kind, N) ==
    CASE kind = "ShenDirichletBasis" -> ShenDirichletBasis_get_vandermonde_basis(N)
      [] kind = "ShenNeumannBasis" -> ShenNeumannBasis_get_vandermonde_basis(N)
      [] kind = "ShenBiharmonicBasis" -> ShenBiharmonicBasis_get_vandermonde_basis(N)
      [] OTHER -> Basis_get_vandermonde_basis(N)

\* output[:] = dot(input * weights, P)
vandermonde_scalar_product_values(U, kind, quad, N) ==
    LET M == Order(quad, N)
        plain == Canon(MulPi(Lin(U, vandermonde(quad, N), M), M), M)
    IN Lin(plain, get_vandermonde_basis(kind, N), M)

\* Basis.scalar_product on the values of the input buffer
Basis_scalar_product_values(U, quad, N, fast) ==
    IF fast THEN Basis_scalar_product_fast(U, quad, N)
    ELSE vandermonde_scalar_product_values(U, "Basis", quad, N)

\* a[k] = 0 for the slots k in S
ZeroSlots(a, S, M) ==
    [v |-> Strict([k \in 1..Len(a.v) |-> IF k \in S THEN ZeroVec(M) ELSE a.v[k]]),
     d |-> a.d, pi |-> a.pi]

\* SpectralBase.wavenumbers: the mode numbers 0 .. N - rows - 1 of slice()
wavenumbers(N, rows) == Strict([i \in 1..(N - rows) |-> i - 1])

\* factor arrays: sequences of fractions <<num, den>>
NoFactor == <<>>

\* ShenNeumannBasis.set_factor_array for an array v of length N:
\* recomputed unless the cached shape equals the shape of v
ShenNeumannBasis_set_factor_array(factor, N) ==
    IF Len(factor) = N THEN factor
    ELSE LET k == wavenumbers(N, 2)
         IN Strict([i \in 1..Len(k) |-> <<k[i] * k[i], (k[i] + 2) * (k[i] + 2)>>])

Min(a, b) == IF a < b THEN a ELSE b

\* ShenBiharmonicBasis.set_factor_arrays for an array v of length L:
\* recomputed unless the cached shape equals the shape of v[slice()],
\* slice() being slice(0, self.N - 4)
ShenBiharmonicBasis_set_factor_arrays(factors, N, L) ==
    IF Len(factors.f1) = Min(N - 4, L) THEN factors
    ELSE LET k == wavenumbers(L, 4)
         IN [f1 |-> Strict([i \in 1..Len(k) |-> <<-2 * (k[i] + 2), k[i] + 3>>]),
             f2 |-> Strict([i \in 1..Len(k) |-> <<k[i] + 1, k[i] + 3>>])]

\* ShenDirichletBasis.scalar_product on the values of the input buffer
ShenDirichletBasis_scalar_product_values(U, quad, N, fast) ==
    LET M == Order(quad, N)
    IN IF fast
       THEN Lin(Canon(Basis_scalar_product_values(U, quad, N, TRUE), M),
                Strict([k \in 1..N |->
                    IF k <= N - 2 THEN <<Term(k, 1, 1), Term(k + 2, -1, 1)>>
                    ELSE IF k = N - 1 THEN <<Term(1, 1, 2), Term(2, 1, 2)>>
                    ELSE <<Term(1, 1, 2), Term(2, -1, 2)>>]), M)
       ELSE vandermonde_scalar_product_values(U, "ShenDirichletBasis", quad, N)

\* a Neumann scalar product that sets the last slot only to zero
ShenNeumannBasis_zeroed_last(N) == {N}

\* the slots ShenNeumannBasis.scalar_product sets to zero: fk[-2:] = 0
ShenNeumannBasis_zeroed(N) == {N - 1, N}

\* ShenNeumannBasis.scalar_product on the values of the input buffer;
\* the result is the content of the output buffer
ShenNeumannBasis_scalar_product_values(U, quad, N, mean, factor, fast) ==
    LET M == Order(quad, N)
        fk == IF fast
              THEN Lin(Canon(Basis_scalar_product_values(U, quad, N, TRUE), M),
                       Strict([k \in 1..N |->
                           IF k <= N - 2
                           THEN <<Term(k, 1, 1),
                                  Term(k + 2, -factor[k][1], factor[k][2])>>
                           ELSE <<Term(k, 1, 1)>>]), M)
              ELSE vandermonde_scalar_product_values(U, "ShenNeumannBasis", quad, N)
    IN ZeroSlots(SetPiTimes(fk, 1, mean, M), ShenNeumannBasis_zeroed(N), M)

\* the slots ShenBiharmonicBasis.scalar_product sets to zero: output[-4:] = 0
ShenBiharmonicBasis_zeroed(N) == (N - 3)..N

\* ShenBiharmonicBasis.scalar_product on the values of the input buffer
ShenBiharmonicBasis_scalar_product_values(U, quad, N, factors, fast) ==
    LET M == Order(quad, N)
        output ==
            IF fast
            THEN Lin(Canon(Basis_scalar_product_values(U, quad, N, TRUE), M),
                     Strict([k \in 1..N |->
                         IF k <= N - 4
                         THEN <<Term(k, 1, 1),
                                Term(k + 2, factors.f1[k][1], factors.f1[k][2]),
                                Term(k + 4, factors.f2[k][1], factors.f2[k][2])>>
                         ELSE <<Term(k, 1, 1)>>]), M)
            ELSE vandermonde_scalar_product_values(U, "ShenBiharmonicBasis", quad, N)
    IN ZeroSlots(output, ShenBiharmonicBasis_zeroed(N), M)

(***************************************************************************)
(* eval: numpy.polynomial.chebyshev.chebval by Clenshaw's recurrence, on   *)
(* integer coefficients at an integer point.                               *)
(***************************************************************************)
RECURSIVE Clenshaw(_, _, _, _, _)
Clenshaw(c, x, i, c0, c1) ==
    \* for i in range(3, len(c) + 1): c0, c1 = c[-i] - c1, c0 + c1*2x
    IF i > Len(c) THEN c0 + c1 * x
    ELSE Clenshaw(c, x, i + 1, c[Len(c) - i + 1] - c1, c0 + c1 * (2 * x))

chebval(x, c) ==
    IF Len(c) = 1 THEN c[1]
    ELSE IF Len(c) = 2 THEN c[1] + c[2] * x
    ELSE Clenshaw(c, x, 3, c[Len(c) - 1], c[Len(c)])

\* the fraction num/den in lowest terms, den > 0
Fraction(num, den) ==
    LET g == Gcd(Abs(num), den) IN <<num \div g, den \div g>>

\* work[(fk, 0)]: a zero-filled work array of the shape of fk
work(fk) == [i \in 1..Len(fk) |-> 0]

\* Basis.eval
Basis_eval(x, fk) == Fraction(chebval(x, fk), 1)

\* ShenDirichletBasis.eval with the recombined series added, not subtracted
ShenDirichletBasis_eval_added(x, fk) ==
    LET N == Len(fk)
        w_hat == [i \in 1..N |-> IF i <= 2 THEN work(fk)[i] ELSE fk[i - 2]]
        out == chebval(x, SubSeq(fk, 1, N - 2)) + chebval(x, w_hat)
    IN Fraction(2 * out + (fk[N] * (1 + x) + fk[N - 1] * (1 - x)), 2)

\* ShenDirichletBasis.eval
ShenDirichletBasis_eval(x, fk) ==
    LET N == Len(fk)
        w_hat == [i \in 1..N |-> IF i <= 2 THEN work(fk)[i] ELSE fk[i - 2]]
        out == chebval(x, SubSeq(fk, 1, N - 2)) - chebval(x, w_hat)
    IN Fraction(2 * out + (fk[N] * (1 + x) + fk[N - 1] * (1 - x)), 2)

eval(kind, x, fk) ==
    IF kind = "ShenDirichletBasis" THEN ShenDirichletBasis_eval(x, fk)
    ELSE Basis_eval(x, fk)

(***************************************************************************)
(* The planning state machine: a basis is constructed, then planned and    *)
(* used in any order.                                                      *)
(***************************************************************************)
Quads == {"GC", "GL", "XX"}
\* the default N = 0, and one N on each side of the variant's minimum
CtorN(kind) ==
    CASE kind = "Basis" -> {0, 1, 4}
      [] kind = "ShenBiharmonicBasis" -> {0, 5, 6}
      [] OTHER -> {0, 3, 4}
Domains(kind) ==
    IF kind = "ShenBiharmonicBasis" THEN {DefaultDomain}
    ELSE {DefaultDomain, <<0, 0>>, <<1, -1>>}

PlanArgs(N) ==
    { [shape |-> sh, axis |-> ax, dtype |-> dt] :
        sh \in {IntShape(N), TupleShape(<<N>>), TupleShape(<<N + 1>>),
                TupleShape(<<N, N + 1>>)},
        ax \in {IntAxis(0), TupleAxis(0), IntAxis(1)},
        dt \in {"float", "complex"} }

CallInputs(N) ==
    {NoInput} \cup {Input(sh) : sh \in {<<N>>, <<1>>, <<N + 1>>}}

NoArgs == [shape |-> IntShape(0), axis |-> IntAxis(0), dtype |-> "none"]

\* what the constructors pass: self.plan(N, 0, np.float, {})
CtorPlanArgs(N) == [shape |-> IntShape(N), axis |-> IntAxis(0), dtype |-> "float"]

Bindings(b) ==
    [forward |-> b.forward, backward |-> b.backward,
     scalar_product |-> b.scalar_product]

OpIds(b) ==
    {b.forward.inp.id, b.forward.out.id, b.backward.inp.id, b.backward.out.id,
     b.scalar_product.inp.id, b.scalar_product.out.id,
     b.xfftn_fwd.inp.id, b.xfftn_fwd.out.id,
     b.xfftn_bck.inp.id, b.xfftn_bck.out.id} \ {0}

\* ids of every buffer an operation of the basis (or of its CT) refers to
BoundIds(b) ==
    IF b.kind = "none" THEN {}
    ELSE OpIds(b) \cup (IF b.CT.kind = "none" THEN {} ELSE OpIds(b.CT))

IsPlanned(b) == b.kind # "none" /\ IsFuncWrap(b.forward)

\* the request differs in shape or axis from the plan in place
Differs(b, args) ==
    IsPlanned(b) /\ (b.forward.inp.shape # args.shape.dims
                       \/ b.axis # args.axis.ax)

NoCall == [op |-> "none", input |-> NoInput, fast |-> FALSE,
           result |-> "ok", ran |-> FALSE, wrote |-> FALSE]

CallRecord(op, input, fast, r) ==
    [op |-> op, input |-> input, fast |-> fast,
     result |-> r.result, ran |-> r.ran, wrote |-> r.wrote]

NoHist == [planned |-> FALSE, last |-> NoArgs, repeat |-> FALSE,
           before |-> Bindings(NewObject("none", 0, "GC", DefaultDomain)),
           differs |-> FALSE, old |-> {}]

\* the contents of the buffers and of the caches (not followed while
\* planning is explored)
NoArr == [v |-> <<>>, d |-> 1, pi |-> 0]
NoMem == [U |-> NoArr, V |-> NoArr, out |-> NoArr, ret |-> "none",
          orig |-> NoArr, stage |-> "none", mean |-> 0,
          factor |-> NoFactor, factors |-> [f1 |-> NoFactor, f2 |-> NoFactor],
          x |-> 0, fk |-> <<>>, y |-> <<0, 1>>, calls |-> 0, len |-> 0]

Init ==
    \E kind \in Kinds, quad \in Quads, doplan \in BOOLEAN :
      \E N \in CtorN(kind), domain \in Domains(kind) :
        LET c == Construct(kind, N, quad, doplan, domain)
        IN /\ config = [kind |-> kind, N |-> N, quad |-> quad,
                        plan |-> doplan, domain |-> domain]
           /\ status = c.status
           /\ basis = c.obj
           /\ nplan = c.used
           /\ call = NoCall
           /\ hist = IF c.status = "ok" /\ doplan
                     THEN [NoHist EXCEPT !.planned = TRUE,
                                         !.last = CtorPlanArgs(N)]
                     ELSE NoHist
           /\ mem = NoMem

\* basis.plan(shape, axis, dtype, {})
Plan(args) ==
    /\ status = "ok"
    /\ nplan < MaxPlans
    /\ args.axis.ax < Len(args.shape.dims)
    /\ LET b2 == plan(basis, args.shape, args.axis, args.dtype, nplan)
       IN /\ basis' = b2
          /\ nplan' = IF b2 = basis THEN nplan ELSE nplan + 1
    /\ call' = CallRecord("plan", NoInput, FALSE, Done(FALSE, FALSE))
    /\ hist' = [planned |-> TRUE, last |-> args, repeat |-> hist.last = args,
                before |-> Bindings(basis), differs |-> Differs(basis, args),
                old |-> BoundIds(basis)]
    /\ UNCHANGED <<config, status, mem>>

\* basis.scalar_product(input_array, fast_transform=fast)
ScalarProduct(input, fast) ==
    /\ status = "ok"
    /\ call' = CallRecord("scalar_product", input, fast,
                          scalar_product(basis, input, fast))
    /\ UNCHANGED <<basis, config, status, nplan, hist, mem>>

\* basis.forward(input_array, fast_transform=fast)
Forward(input, fast) ==
    /\ status = "ok"
    /\ call' = CallRecord("forward", input, fast, forward(basis, input, fast))
    /\ UNCHANGED <<basis, config, status, nplan, hist, mem>>

\* basis.backward(input_array, fast_transform=fast)
Backward(input, fast) ==
    /\ status = "ok"
    /\ call' = CallRecord("backward", input, fast, backward(basis, input, fast))
    /\ UNCHANGED <<basis, config, status, nplan, hist, mem>>

Next ==
    \/ \E args \in PlanArgs(config.N) : Plan(args)
    \/ \E input \in CallInputs(config.N), fast \in BOOLEAN : ScalarProduct(input, fast)
    \/ \E input \in CallInputs(config.N), fast \in BOOLEAN : Forward(input, fast)
    \/ \E input \in CallInputs(config.N), fast \in BOOLEAN : Backward(input, fast)

Spec == Init /\ [][Next]_vars

(***************************************************************************)
(* Properties of planning.                                                *)
(***************************************************************************)
TransformOps == {"forward", "backward", "scalar_product"}

\* C1: a plan call whose arguments are identical to those of the plan call
\* before it (the constructors' plan(N, 0, float, {}) included) is a no-op:
\* forward, backward and scalar_product and their input and output buffers
\* are the same objects after it as before it.
C1_IdempotentPlanning ==
    hist.repeat => Bindings(basis) = hist.before

\* C2: once a plan call has returned the basis is planned and stays so, its
\* input buffer has the shape and its axis is the axis of the most recent
\* plan call, and when that call differed in shape or axis from the plan
\* in place no operation refers to a buffer of the old plan.
C2_PlanTracksLastRequest ==
    hist.planned =>
        /\ IsFuncWrap(basis.forward) /\ IsFuncWrap(basis.backward)
        /\ IsFuncWrap(basis.scalar_product)
        /\ basis.forward.inp.shape = hist.last.shape.dims
        /\ basis.axis = NormAxis(hist.last.axis)
        /\ hist.differs => BoundIds(basis) \cap hist.old = {}

C2_Witness ==
    /\ call.op = "plan" /\ hist.differs /\ hist.old # {}
    /\ basis.kind = "ShenDirichletBasis"
    /\ basis.axis = 1

\* the element type a dtype argument asks for
ElementType(dtype) == IF dtype = "float" THEN "real" ELSE "complex"

\* C3: the buffers bound to forward/backward/scalar_product have the
\* element type that the most recent plan call asked for.
C3_ElementTypeOfLastPlan ==
    hist.planned =>
        \A op \in {basis.forward, basis.backward, basis.scalar_product} :
            /\ op.inp.dtype = ElementType(hist.last.dtype)
            /\ op.out.dtype = ElementType(hist.last.dtype)

\* C4: in every planned state forward, scalar_product and backward are
\* bound to one pair (U, V), for a Shen basis the pair of its CT, and no
\* identity assertion of a transform operation fails.
C4_SharedBufferPair ==
    IsPlanned(basis) =>
        LET U == basis.forward.inp.id
            V == basis.forward.out.id
        IN /\ U # 0 /\ V # 0 /\ U # V
           /\ basis.scalar_product.inp.id = U /\ basis.backward.out.id = U
           /\ basis.scalar_product.out.id = V /\ basis.backward.inp.id = V
           /\ basis.CT.kind # "none" =>
                /\ basis.CT.forward.inp.id = U /\ basis.CT.forward.out.id = V
                /\ basis.CT.scalar_product.inp.id = U
                /\ basis.CT.scalar_product.out.id = V
                /\ basis.CT.backward.inp.id = V /\ basis.CT.backward.out.id = U
           /\ call.result # "IdentityAssertion"

C4_Witness ==
    /\ basis.kind = "ShenNeumannBasis" /\ IsPlanned(basis)
    /\ basis.forward.inp.dtype = "complex"
    /\ nplan = 2
    /\ call.op = "backward" /\ call.result = "ok" /\ call.ran

\* C5: on a basis constructed with plan=False and never planned, forward,
\* backward and scalar_product end with an error (the AttributeError of
\* the unbound input_array), compute no transform, write no buffer and
\* leave the basis unplanned.
C5_UnplannedUseFails ==
    (call.op \in TransformOps /\ ~config.plan /\ ~hist.planned) =>
        /\ call.result = "AttributeError"
        /\ ~call.ran /\ ~call.wrote
        /\ ~IsPlanned(basis)

C5_Witness ==
    /\ call.op = "backward" /\ ~config.plan /\ ~hist.planned
    /\ basis.kind = "ShenBiharmonicBasis"
    /\ call.result = "AttributeError"

\* C6: a transform call on a planned basis with an input_array whose shape
\* differs from the planned buffer shape ends with an error and writes
\* nothing into the planned buffers.
C6_ShapeMismatchIsError ==
    (/\ call.op \in TransformOps /\ IsPlanned(basis) /\ call.input.given
     /\ call.input.shape # basis.forward.inp.shape) =>
        /\ call.result = "ValueError"
        /\ ~call.wrote

\* a configuration the data model rules out
InvalidConfig(c) ==
    \/ c.quad \notin {"GC", "GL"}
    \/ c.N < MinModes(c.kind)
    \/ c.domain[1] >= c.domain[2]

MaxN == 4           \* plain basis: 2 .. MaxN modes
MaxExtra == 1       \* Shen bases: MinModes .. MinModes + MaxExtra modes
MaxEvalN == 6       \* eval: coefficient vectors of 4 .. MaxEvalN entries
MaxCalls == 2       \* forward/backward calls followed per behaviour
Means == {0, 1, -2}

RealQuads == {"GC", "GL"}

\* grid-valued arrays of the planned shape (N,)
Grids(N) ==
    {[i \in 1..N |-> IF i = j THEN 1 ELSE 0] : j \in 1..N}
        \cup {[i \in 1..N |-> Sign(i) * i]}

\* input_array: None, the array the last call returned, or a new array
NoValue == [given |-> FALSE, alias |-> FALSE, val |-> <<>>]
Alias == [given |-> TRUE, alias |-> TRUE, val |-> <<>>]
Value(f) == [given |-> TRUE, alias |-> FALSE, val |-> f]
Values(N) == {NoValue, Alias} \cup {Value(f) : f \in Grids(N)}

Returned(m) ==
    CASE m.ret = "U" -> m.U
      [] m.ret = "V" -> m.V
      [] OTHER -> m.out

\* buffer[...] = input_array
CopyInValues(buffer, input, m, M) ==
    IF ~input.given THEN buffer
    ELSE IF input.alias THEN Returned(m)
    ELSE Canon(FromInts(input.val, M), M)

AsInput(input, N) == IF input.given THEN Input(<<N>>) ELSE NoInput

\* the state after Construct(kind, N, quad, plan=True), mean being the
\* mean of a Neumann basis
Constructed(kind, quad, N, mean) ==
    LET c == Construct(kind, N, quad, TRUE, DefaultDomain)
    IN /\ config = [kind |-> kind, N |-> N, quad |-> quad,
                    plan |-> TRUE, domain |-> DefaultDomain]
       /\ status = c.status
       /\ basis = c.obj
       /\ nplan = c.used
       /\ call = NoCall
       /\ hist = [NoHist EXCEPT !.planned = TRUE, !.last = CtorPlanArgs(N)]
       /\ mem = [NoMem EXCEPT !.U = Zeros(N, Order(quad, N)),
                              !.V = Zeros(N, Order(quad, N)),
                              !.ret = "U", !.mean = mean]

\* SpectralBase.forward on the values: scalar_product, then
\* apply_inverse_mass on the output buffer
SpectralBase_forward_values(U, quad, N, fast) ==
    LET M == Order(quad, N)
    IN Canon(Basis_apply_inverse_mass(
                 Canon(Basis_scalar_product_values(U, quad, N, fast), M), quad, N), M)

RoundTripInit ==
    \E quad \in RealQuads, N \in 2..MaxN : Constructed("Basis", quad, N, 0)

\* basis.forward(input_array, fast_transform=fast)
AfterForward(m, U1, V1) ==
    [m EXCEPT !.U = U1, !.V = V1, !.ret = "V", !.orig = U1, !.stage = "forward",
              !.calls = @ + 1]

ForwardValues(m, U1, quad, N, fast) ==
    AfterForward(m, U1, SpectralBase_forward_values(U1, quad, N, fast))

DataForward(input, fast) ==
    /\ mem.calls < MaxCalls
    /\ call' = CallRecord("forward", AsInput(input, config.N), fast, Done(TRUE, TRUE))
    /\ mem' = ForwardValues(mem, CopyInValues(mem.U, input, mem,
                                              Order(config.quad, config.N)),
                            config.quad, config.N, fast)
    /\ UNCHANGED <<basis, config, status, nplan, hist>>

\* basis.backward(input_array)
\* SpectralBase.backward on the values: evaluate_expansion_all of the
\* spectral buffer into the physical buffer
SpectralBase_backward_values(V, quad, N) ==
    Canon(Basis_evaluate_expansion_all_values(V, quad, N), Order(quad, N))

BackwardValues(m, V1, quad, N, chained) ==
    [m EXCEPT !.V = V1, !.U = SpectralBase_backward_values(V1, quad, N),
              !.ret = "U",
              !.stage = IF m.stage = "forward" /\ chained THEN "roundtrip"
                        ELSE "backward",
              !.calls = @ + 1]

DataBackward(input) ==
    /\ mem.calls < MaxCalls
    /\ call' = CallRecord("backward", AsInput(input, config.N), TRUE, Done(TRUE, TRUE))
    /\ mem' = BackwardValues(mem, CopyInValues(mem.V, input, mem,
                                               Order(config.quad, config.N)),
                             config.quad, config.N,
                             input = NoValue \/ input = Alias)
    /\ UNCHANGED <<basis, config, status, nplan, hist>>

RoundTripNext ==
    \/ \E input \in Values(config.N), fast \in BOOLEAN : DataForward(input, fast)
    \/ \E input \in Values(config.N) : DataBackward(input)

SpecRoundTrip == RoundTripInit /\ [][RoundTripNext]_vars

\* C8: on a planned plain basis with N >= 2 modes and either quadrature,
\* backward applied to the result of forward(f) leaves in the returned
\* physical array exactly the grid values f that forward was given.
C8_RoundTrip ==
    mem.stage = "roundtrip" => (mem.ret = "U" /\ mem.U = mem.orig)

C8_Witness ==
    /\ mem.stage = "roundtrip" /\ config.quad = "GL" /\ config.N = 3
    /\ mem.U = FromInts(<<-1, 2, -3>>, Order("GL", 3))
    /\ mem.V # mem.U

(***************************************************************************)
(* scalar_product of every basis on the contents of the buffers.           *)
(***************************************************************************)
ShenN(kind) == MinModes(kind)..(MinModes(kind) + MaxExtra)

\* mean is an argument of the Neumann constructor only
MeansOf(kind) == IF kind = "ShenNeumannBasis" THEN Means ELSE {0}

ScalarProductInit ==
    \E kind \in Kinds, quad \in RealQuads :
      \E N \in ShenN(kind), mean \in MeansOf(kind) : Constructed(kind, quad, N, mean)

\* basis.scalar_product(input_array, output_array, fast_transform=fast);
\* given says whether the caller supplies an output_array
scalar_product_values(kind, U, quad, N, mean, factor, factors, fast) ==
    CASE kind = "ShenDirichletBasis" ->
           ShenDirichletBasis_scalar_product_values(U, quad, N, fast)
      [] kind = "ShenNeumannBasis" ->
           ShenNeumannBasis_scalar_product_values(U, quad, N, mean, factor, fast)
      [] kind = "ShenBiharmonicBasis" ->
           ShenBiharmonicBasis_scalar_product_values(U, quad, N, factors, fast)
      [] OTHER -> Basis_scalar_product_values(U, quad, N, fast)

\* output_array[...] = self.scalar_product.output_array; return output_array
AfterScalarProduct(m, U1, V1, given, factor, factors) ==
    [m EXCEPT !.U = U1, !.V = V1,
              !.out = IF given THEN V1 ELSE NoArr,
              !.ret = IF given THEN "out" ELSE "V",
              !.factor = factor, !.factors = factors,
              !.stage = "scalar_product"]

ScalarProductValues(m, kind, U1, quad, N, given, factor, factors, fast) ==
    AfterScalarProduct(m, U1,
        Canon(scalar_product_values(kind, U1, quad, N, m.mean, factor, factors, fast),
              Order(quad, N)),
        given, factor, factors)

DataScalarProduct(input, given, fast) ==
    /\ call' = CallRecord("scalar_product", AsInput(input, config.N), fast,
                          Done(TRUE, TRUE))
    /\ mem' = ScalarProductValues(
                  mem, config.kind,
                  CopyInValues(mem.U, input, mem, Order(config.quad, config.N)),
                  config.quad, config.N, given,
                  IF fast /\ config.kind = "ShenNeumannBasis"
                  THEN ShenNeumannBasis_set_factor_array(mem.factor, config.N)
                  ELSE mem.factor,
                  IF fast /\ config.kind = "ShenBiharmonicBasis"
                  THEN ShenBiharmonicBasis_set_factor_arrays(mem.factors, config.N, config.N)
                  ELSE mem.factors,
                  fast)
    /\ UNCHANGED <<basis, config, status, nplan, hist>>

\* input_array: None or a new grid-valued array
GridValues(N) ==
    {NoValue} \cup {Value(f) : f \in {[i \in 1..N |-> IF i = 1 THEN 1 ELSE 0],
                                      [i \in 1..N |-> Sign(i) * i]}}

ScalarProductNext ==
    \E input \in GridValues(config.N), given \in BOOLEAN, fast \in BOOLEAN :
        DataScalarProduct(input, given, fast)

SpecScalarProduct == ScalarProductInit /\ [][ScalarProductNext]_vars

\* the number a[k] equals c * pi
IsPiTimes(a, k, c, M) ==
    /\ a.v[k] = IntVec(c * a.d, M)
    /\ c # 0 => a.pi = 1

\* C10: the array scalar_product returns (the output buffer, or the
\* output_array of the caller) has, for the Neumann basis, mean*pi in slot
\* k = 0 and zero in its last two slots, and for the biharmonic basis zero
\* in its last four slots, on the fast and on the slow path.
C10_BoundarySlots ==
    call.op = "scalar_product" =>
        LET r == Returned(mem)
            N == config.N
        IN /\ config.kind = "ShenNeumannBasis" =>
                /\ IsPiTimes(r, 1, mem.mean, Order(config.quad, N))
                /\ \A k \in (N - 1)..N : IsZero(r.v[k])
           /\ config.kind = "ShenBiharmonicBasis" =>
                \A k \in (N - 3)..N : IsZero(r.v[k])

C10_Witness ==
    /\ call.op = "scalar_product" /\ ~call.fast /\ mem.ret = "out"
    /\ config.kind = "ShenNeumannBasis" /\ mem.mean = -2
    /\ ~IsZero(mem.out.v[2])
    /\ IsPiTimes(mem.out, 1, -2, Order(config.quad, config.N))

(***************************************************************************)
(* eval of a coefficient vector at a point.                                *)
(***************************************************************************)
EvalKinds == {"Basis", "ShenDirichletBasis"}
EvalPoints == {-1, 0, 1}
Coefficients(N) == [1..N -> {-1, 0, 1}]

EvalInit ==
    \E kind \in EvalKinds, N \in 4..MaxEvalN :
      \E fk \in Coefficients(N) :
        LET c == Construct(kind, N, "GC", FALSE, DefaultDomain)
        IN /\ config = [kind |-> kind, N |-> N, quad |-> "GC",
                        plan |-> FALSE, domain |-> DefaultDomain]
           /\ status = c.status
           /\ basis = c.obj
           /\ nplan = c.used
           /\ call = NoCall
           /\ hist = NoHist
           /\ mem = [NoMem EXCEPT !.fk = fk]

\* basis.eval(x, fk)
Eval(x) ==
    /\ call' = CallRecord("eval", NoInput, FALSE, Done(FALSE, FALSE))
    /\ mem' = [mem EXCEPT !.x = x, !.y = eval(config.kind, x, mem.fk)]
    /\ UNCHANGED <<basis, config, status, nplan, hist>>

EvalNext == \E x \in EvalPoints : Eval(x)

SpecEval == EvalInit /\ [][EvalNext]_vars

\* C9: ShenDirichletBasis.eval of a coefficient vector of N >= 4 entries
\* whose entries N-2 and N-1 are zero returns 0 at x = 1 and at x = -1.
C9_DirichletBoundary ==
    (/\ call.op = "eval" /\ config.kind = "ShenDirichletBasis"
     /\ mem.fk[config.N - 1] = 0 /\ mem.fk[config.N] = 0
     /\ mem.x \in {-1, 1}) =>
        mem.y = <<0, 1>>

C9_Witness ==
    /\ call.op = "eval" /\ config.kind = "ShenDirichletBasis" /\ config.N = 6
    /\ mem.fk = <<1, -1, 1, 1, 0, 0>> /\ mem.x = -1
    /\ mem.y = <<0, 1>>

(***************************************************************************)
(* backward of every basis on the contents of the buffers, interleaved     *)
(* with scalar_product: which buffer a call writes.                        *)
(***************************************************************************)
\* bc.apply_before(w_hat, False, (0.5, 0.5)) of a basis constructed with
\* the default bc = (0, 0): the boundary-lifted contributions are zero
BoundaryValues_apply_before(w_hat) == w_hat

\* the terms that exist among a candidate list <<present, term>>
Present(cands) ==
    LET keep == {j \in 1..Len(cands) : cands[j][1]}
        Upto(j) == Cardinality({i \in keep : i <= j})
    IN Strict([n \in 1..Cardinality(keep) |->
           cands[CHOOSE j \in keep : Upto(j) = n][2]])

\* ShenDirichletBasis.evaluate_expansion_all: w_hat[:-2] = in[:-2];
\* w_hat[2:] -= in[:-2]
ShenDirichletBasis_w_hat(V, N, M) ==
    BoundaryValues_apply_before(
        Lin(V, Strict([k \in 1..N |->
                Present(<< <<k <= N - 2, Term(k, 1, 1)>>,
                           <<k >= 3, Term(IF k >= 3 THEN k - 2 ELSE 1, -1, 1)>> >>)]),
            M))

\* ShenNeumannBasis.evaluate_expansion_all: w_hat[:-2] = in[:-2];
\* w_hat[2:] -= factor*in[:-2]
ShenNeumannBasis_w_hat(V, N, factor, M) ==
    Lin(V, Strict([k \in 1..N |->
            Present(<< <<k <= N - 2, Term(k, 1, 1)>>,
                       <<k >= 3,
                         IF k >= 3
                         THEN Term(k - 2, -factor[k - 2][1], factor[k - 2][2])
                         ELSE Term(1, 0, 1)>> >>)]),
        M)

\* ShenBiharmonicBasis.set_w_hat: w_hat[s] = fk[s]; w_hat[2:-2] += f1*fk[s];
\* w_hat[4:] += f2*fk[s]
ShenBiharmonicBasis_set_w_hat(V, N, factors, M) ==
    Lin(V, Strict([k \in 1..N |->
            Present(<< <<k <= N - 4, Term(k, 1, 1)>>,
                       <<k >= 3 /\ k <= N - 2,
                         IF k >= 3 /\ k <= N - 2
                         THEN Term(k - 2, factors.f1[k - 2][1], factors.f1[k - 2][2])
                         ELSE Term(1, 0, 1)>>,
                       <<k >= 5,
                         IF k >= 5
                         THEN Term(k - 4, factors.f2[k - 4][1], factors.f2[k - 4][2])
                         ELSE Term(1, 0, 1)>> >>)]),
        M)

\* the array a Shen basis hands to CT.backward
w_hat_values(kind, V, N, factor, factors, M) ==
    CASE kind = "ShenDirichletBasis" -> ShenDirichletBasis_w_hat(V, N, M)
      [] kind = "ShenNeumannBasis" -> ShenNeumannBasis_w_hat(V, N, factor, M)
      [] OTHER -> ShenBiharmonicBasis_set_w_hat(V, N, factors, M)

\* CT.backward(w_hat): SpectralBase.backward copies w_hat into
\* backward.input_array, the spectral buffer V that the Shen basis shares
\* with its CT
CT_backward_input(V, w) == w

\* the spectral buffer after evaluate_expansion_all of the basis
spectral_after_backward(kind, V, w) ==
    IF kind = "Basis" THEN V ELSE CT_backward_input(V, w)

AfterBackward(m, kind, V0, w, quad, N, factor, factors) ==
    [m EXCEPT !.orig = m.V,
              !.V = spectral_after_backward(kind, V0, w),
              !.U = SpectralBase_backward_values(w, quad, N),
              !.ret = "U", !.stage = "backward", !.calls = @ + 1,
              !.factor = factor, !.factors = factors]

ShenBackwardValues(m, kind, V0, quad, N, factor, factors) ==
    AfterBackward(m, kind, V0,
        IF kind = "Basis" THEN V0
        ELSE Canon(w_hat_values(kind, V0, N, factor, factors, Order(quad, N)),
                   Order(quad, N)),
        quad, N, factor, factors)

\* basis.backward(input_array)
DataShenBackward(input) ==
    /\ mem.calls < MaxCalls
    /\ call' = CallRecord("backward", AsInput(input, config.N), TRUE, Done(TRUE, TRUE))
    /\ mem' = ShenBackwardValues(
                  mem, config.kind,
                  CopyInValues(mem.V, input, mem, Order(config.quad, config.N)),
                  config.quad, config.N,
                  IF config.kind = "ShenNeumannBasis"
                  THEN ShenNeumannBasis_set_factor_array(mem.factor, config.N)
                  ELSE mem.factor,
                  IF config.kind = "ShenBiharmonicBasis"
                  THEN ShenBiharmonicBasis_set_factor_arrays(mem.factors, config.N, config.N)
                  ELSE mem.factors)
    /\ UNCHANGED <<basis, config, status, nplan, hist>>

\* basis.scalar_product(input_array, output_array, fast_transform=fast),
\* the physical buffer before the call being remembered
AliasScalarProduct(input, given, fast) ==
    /\ mem.calls < MaxCalls
    /\ call' = CallRecord("scalar_product", AsInput(input, config.N), fast,
                          Done(TRUE, TRUE))
    /\ mem' = [ScalarProductValues(
                  mem, config.kind,
                  CopyInValues(mem.U, input, mem, Order(config.quad, config.N)),
                  config.quad, config.N, given,
                  IF fast /\ config.kind = "ShenNeumannBasis"
                  THEN ShenNeumannBasis_set_factor_array(mem.factor, config.N)
                  ELSE mem.factor,
                  IF fast /\ config.kind = "ShenBiharmonicBasis"
                  THEN ShenBiharmonicBasis_set_factor_arrays(mem.factors, config.N, config.N)
                  ELSE mem.factors,
                  fast) EXCEPT !.orig = mem.U, !.calls = @ + 1]
    /\ UNCHANGED <<basis, config, status, nplan, hist>>

AliasInit ==
    \E kind \in Kinds, quad \in RealQuads :
      \E N \in ShenN(kind) : Constructed(kind, quad, N, 0)

AliasNext ==
    \/ \E input \in GridValues(config.N), fast \in BOOLEAN :
          AliasScalarProduct(input, FALSE, fast)
    \/ \E input \in GridValues(config.N) : DataShenBackward(input)

SpecAlias == AliasInit /\ [][AliasNext]_vars

\* C11: a backward call that is given no new input array leaves the spectral
\* buffer (the un-copied result of the last forward/scalar_product call) as
\* it was, and a scalar_product call that is given no new input array leaves
\* the physical buffer (the un-copied result of the last backward call) as
\* it was, for the plain, Dirichlet, Neumann and biharmonic bases.
C11_AliasingSameDirection ==
    (call.op \in {"backward", "scalar_product"} /\ ~call.input.given) =>
        IF call.op = "backward" THEN mem.V = mem.orig ELSE mem.U = mem.orig

(***************************************************************************)
(* The factor caches of the Neumann and biharmonic bases under plan calls  *)
(* and calls on arrays of varying length.  mem.len is the length along the *)
(* transform axis of the array a recombination step processes.             *)
(***************************************************************************)
FactorKinds == {"ShenNeumannBasis", "ShenBiharmonicBasis"}

\* lengths of the arrays planned for and passed to eval
FactorLens(N) == N..(N + MaxExtra + 1)

FactorPlanArgs(N) ==
    { [shape |-> TupleShape(<<L>>), axis |-> IntAxis(0), dtype |-> dt] :
        L \in FactorLens(N), dt \in {"float", "complex"} }

FactorInit ==
    \E kind \in FactorKinds, quad \in RealQuads :
      \E N \in ShenN(kind) :
        LET c == Construct(kind, N, quad, TRUE, DefaultDomain)
        IN /\ config = [kind |-> kind, N |-> N, quad |-> quad,
                        plan |-> TRUE, domain |-> DefaultDomain]
           /\ status = c.status
           /\ basis = c.obj
           /\ nplan = c.used
           /\ call = NoCall
           /\ hist = [NoHist EXCEPT !.planned = TRUE, !.last = CtorPlanArgs(N)]
           /\ mem = NoMem

\* self.set_factor_array(v) / self.set_factor_arrays(v) for an array of
\* length L, followed by the recombination step that uses the factors
SetFactors(m, kind, N, L) ==
    [m EXCEPT !.factor = IF kind = "ShenNeumannBasis"
                         THEN ShenNeumannBasis_set_factor_array(@, L) ELSE @,
              !.factors = IF kind = "ShenBiharmonicBasis"
                          THEN ShenBiharmonicBasis_set_factor_arrays(@, N, L) ELSE @,
              !.len = L, !.stage = "recombine"]

\* numpy's outcome of the recombination step: F weights times the slice of
\* the coefficients, assigned to (added to) a slice of w_hat or of output
Recombine(kind, op, F, N, L) ==
    IF \/ kind = "ShenNeumannBasis" /\ F = L - 2
       \/ kind = "ShenBiharmonicBasis" /\ op = "eval" /\ F = L - 4
       \/ kind = "ShenBiharmonicBasis" /\ op # "eval" /\ F = N - 4 /\ L = N
    THEN Done(TRUE, TRUE)
    ELSE Raise("ValueError", TRUE, FALSE)

FactorLen(m, kind) ==
    IF kind = "ShenNeumannBasis" THEN Len(m.factor) ELSE Len(m.factors.f1)

\* the call op(...) with its recombination step on an array of length L
Recombined(m, kind, op, N, L, fast) ==
    /\ mem' = m
    /\ call' = CallRecord(op, NoInput, fast,
                          Recombine(kind, op, FactorLen(m, kind), N, L))

\* basis.eval(x, fk) with len(fk) = L
FactorEval(L) ==
    /\ Recombined(SetFactors(mem, config.kind, config.N, L), config.kind, "eval",
                  config.N, L, FALSE)
    /\ UNCHANGED <<basis, config, status, nplan, hist>>

\* basis.backward(): evaluate_expansion_all of the planned spectral buffer
FactorBackward ==
    /\ IsPlanned(basis)
    /\ Recombined(SetFactors(mem, config.kind, config.N,
                             AxisLen(basis.backward.inp.shape, basis.axis)),
                  config.kind, "backward", config.N,
                  AxisLen(basis.backward.inp.shape, basis.axis), TRUE)
    /\ UNCHANGED <<basis, config, status, nplan, hist>>

\* basis.scalar_product(fast_transform=fast): the factors are set and used
\* on the fast path, once CT.scalar_product has returned
FactorScalarProduct(fast) ==
    /\ IsPlanned(basis)
    /\ IF fast /\ scalar_product(basis.CT, NoInput, TRUE).result = "ok"
       THEN Recombined(SetFactors(mem, config.kind, config.N,
                                  AxisLen(basis.scalar_product.inp.shape, basis.axis)),
                       config.kind, "scalar_product", config.N,
                       AxisLen(basis.scalar_product.inp.shape, basis.axis), TRUE)
       ELSE /\ call' = CallRecord("scalar_product", NoInput, fast,
                                  scalar_product(basis, NoInput, fast))
            /\ mem' = [mem EXCEPT !.stage = "scalar_product"]
    /\ UNCHANGED <<basis, config, status, nplan, hist>>

FactorNext ==
    \/ \E args \in FactorPlanArgs(config.N) : Plan(args)
    \/ \E L \in FactorLens(config.N) : FactorEval(L)
    \/ FactorBackward
    \/ \E fast \in BOOLEAN : FactorScalarProduct(fast)

SpecFactors == FactorInit /\ [][FactorNext]_vars

\* the factor arrays computed for an array of length L along the axis
FreshFactor(L) == ShenNeumannBasis_set_factor_array(NoFactor, L)
FreshFactors(N, L) ==
    ShenBiharmonicBasis_set_factor_arrays([f1 |-> NoFactor, f2 |-> NoFactor], N, L)

\* C12: at every recombination step the cached factor arrays have the
\* length of the array processed less the boundary rows (2 for Neumann,
\* 4 for biharmonic) and hold the weights computed for that length: a
\* factor array computed for an array of another length is not reused.
C12_FactorCacheFresh ==
    mem.stage = "recombine" =>
        /\ config.kind = "ShenNeumannBasis" =>
             /\ Len(mem.factor) = mem.len - 2
             /\ mem.factor = FreshFactor(mem.len)
        /\ config.kind = "ShenBiharmonicBasis" =>
             /\ Len(mem.factors.f1) = mem.len - 4
             /\ Len(mem.factors.f2) = mem.len - 4
             /\ mem.factors = FreshFactors(config.N, mem.len)

(***************************************************************************)
(* eval against the expansion in the basis functions of                    *)
(* get_vandermonde_basis.                                                  *)
(***************************************************************************)
\* column j of ChebyshevBase.vandermonde(x): T_j(x)
vandermonde_at(x, j) == chebval(x, [i \in 1..(j + 1) |-> IF i = j + 1 THEN 1 ELSE 0])

\* twice the value at x of the basis function whose terms are row[j..]
RECURSIVE TwiceBasisAt(_, _, _)
TwiceBasisAt(row, x, j) ==
    IF j > Len(row) THEN 0
    ELSE row[j].num * (2 \div row[j].den) * vandermonde_at(x, row[j].idx - 1)
           + TwiceBasisAt(row, x, j + 1)

\* twice the sum over k >= j of fk[k] * P_k(x), P the basis functions
RECURSIVE TwiceExpansion(_, _, _, _)
TwiceExpansion(P, x, fk, j) ==
    IF j > Len(fk) THEN 0
    ELSE fk[j] * TwiceBasisAt(P[j], x, 1) + TwiceExpansion(P, x, fk, j + 1)

\* sum over k of fk[k] * P_k(x), P = get_vandermonde_basis(vandermonde(x))
ShenDirichletBasis_expansion(x, fk) ==
    Fraction(TwiceExpansion(ShenDirichletBasis_get_vandermonde_basis(Len(fk)), x, fk, 1),
             2)

\* C13: ShenDirichletBasis.eval(x, fk) equals the sum over all N slots k of
\* fk[k] * P_k(x), P_k the basis functions of get_vandermonde_basis:
\* T_k - T_{k+2} for k < N-2, (T_0 + T_1)/2 at N-2 and (T_0 - T_1)/2 at N-1.
C13_EvalIsExpansion ==
    (call.op = "eval" /\ config.kind = "ShenDirichletBasis") =>
        mem.y = ShenDirichletBasis_expansion(mem.x, mem.fk)

=============================================================================
